---- MODULE Spec2Model ----
(***************************************************************************)
(* Model of dalex.dataset_level._model_performance.object.ModelPerformance *)
(* (object.py): the constructor, fit and plot, over a small population of  *)
(* ModelPerformance objects and Explainer collaborators.                   *)
(*                                                                         *)
(* Floating-point values are exact rationals plus NaN: a value is the      *)
(* record [nan, num, den] in lowest terms with den > 0.  NaN compares      *)
(* false with everything (IEEE 754), and propagates through arithmetic.    *)
(* Python's None is the empty sequence, Some(x) the one-element sequence.  *)
(***************************************************************************)
EXTENDS Integers, Sequences, FiniteSets, TLC

VARIABLES objs,    \* the ModelPerformance objects: model_type, cutoff, result, residuals
          call,    \* the call that has just ended: op ("idle" between calls), self, explainer, objects, show
          raised,  \* the exception that call raised (NoError when it returned)
          locals,  \* the locals tp, fp, tn, fn of that call, a classification fit
          fig,     \* the chart of that call, a plot: created, traces, returned, shown
          everok,  \* history: the objects on which some fit call has returned
          lastok   \* history: per object, the explainer of its last fit call if that call returned

vars == <<objs, call, raised, locals, fig, everok, lastok>>

--------------------------------------------------------------------------
(* Bounds of the model *)

\* longest prediction / label vector of a generated Explainer
MaxN == 3
\* longest collection of peers handed to plot
MaxPeers == 2

--------------------------------------------------------------------------
(* None / optional values *)

None == <<>>
Some(x) == <<x>>
the(o) == o[1]

--------------------------------------------------------------------------
(* Floating point: rationals and NaN *)

Abs(n) == IF n < 0 THEN -n ELSE n

RECURSIVE GCD(_, _)
GCD(a, b) == IF b = 0 THEN a ELSE GCD(b, a % b)

NaN == [nan |-> TRUE, num |-> 0, den |-> 1]

\* n/d in lowest terms; 0/0 is NaN (the only division by zero that the
\* formulas modelled here can produce, see r2)
Q(n, d) ==
    IF d = 0 THEN NaN
    ELSE LET g == GCD(Abs(n), Abs(d))
             s == IF d < 0 THEN -1 ELSE 1
         IN [nan |-> FALSE, num |-> (s * n) \div g, den |-> (s * d) \div g]

\* the decimal v/10, e.g. Tenths(5) is 0.5
Tenths(v) == Q(v, 10)

Zero == Q(0, 1)
One == Q(1, 1)

f_lt(a, b) == ~a.nan /\ ~b.nan /\ a.num * b.den < b.num * a.den
f_le(a, b) == ~a.nan /\ ~b.nan /\ a.num * b.den <= b.num * a.den
f_ge(a, b) == ~a.nan /\ ~b.nan /\ a.num * b.den >= b.num * a.den
f_gt(a, b) == ~a.nan /\ ~b.nan /\ a.num * b.den > b.num * a.den
f_eq(a, b) == ~a.nan /\ ~b.nan /\ a.num * b.den = b.num * a.den

f_add(a, b) == IF a.nan \/ b.nan THEN NaN
               ELSE Q(a.num * b.den + b.num * a.den, a.den * b.den)
f_sub(a, b) == IF a.nan \/ b.nan THEN NaN
               ELSE Q(a.num * b.den - b.num * a.den, a.den * b.den)
f_mul(a, b) == IF a.nan \/ b.nan THEN NaN ELSE Q(a.num * b.num, a.den * b.den)
f_div(a, b) == IF a.nan \/ b.nan THEN NaN ELSE Q(a.num * b.den, a.den * b.num)
f_abs(a) == IF a.nan THEN NaN ELSE Q(Abs(a.num), a.den)

--------------------------------------------------------------------------
(* numpy vectors: sequences of floating-point values *)

RECURSIVE v_sum(_)
v_sum(v) == IF v = <<>> THEN Zero ELSE f_add(Head(v), v_sum(Tail(v)))

\* .sum() of a boolean array: the number of True elements
RECURSIVE b_sum(_)
b_sum(v) == IF v = <<>> THEN 0 ELSE (IF Head(v) THEN 1 ELSE 0) + b_sum(Tail(v))

v_sub(a, b) == [i \in 1..Len(a) |-> f_sub(a[i], b[i])]
v_abs(a) == [i \in 1..Len(a) |-> f_abs(a[i])]
v_sq(a) == [i \in 1..Len(a) |-> f_mul(a[i], a[i])]
v_mean(a) == IF Len(a) = 0 THEN NaN ELSE f_div(v_sum(a), Q(Len(a), 1))
v_hasnan(a) == \E i \in 1..Len(a) : a[i].nan

\* insert x into the ascending sequence s (no NaN in s or x)
RECURSIVE insert(_, _)
insert(x, s) ==
    IF s = <<>> THEN <<x>>
    ELSE IF f_le(x, Head(s)) THEN <<x>> \o s
    ELSE <<Head(s)>> \o insert(x, Tail(s))

\* np.sort of the values of v that are not NaN
RECURSIVE sort_finite(_)
sort_finite(v) ==
    IF v = <<>> THEN <<>>
    ELSE IF Head(v).nan THEN sort_finite(Tail(v))
    ELSE insert(Head(v), sort_finite(Tail(v)))

\* an ascending sequence without its repeated values
RECURSIVE dedup(_)
dedup(s) ==
    IF Len(s) <= 1 THEN s
    ELSE IF f_eq(s[1], s[2]) THEN dedup(Tail(s))
    ELSE <<Head(s)>> \o dedup(Tail(s))

--------------------------------------------------------------------------
(* utils: the metric functions fit calls.  The text of these functions is  *)
(* not part of the sources at hand; they follow the formulas of the        *)
(* specification (MetricEngine).                                           *)

\* the arrays handed to a metric differ in length: the metric raises
ShapeMismatch(y_pred, y_true) == Len(y_pred) # Len(y_true)

mse(y_pred, y_true) == v_mean(v_sq(v_sub(y_pred, y_true)))

\* the square root is kept symbolic
rmse(y_pred, y_true) == [sqrt_of |-> mse(y_pred, y_true)]

r2(y_pred, y_true) ==
    LET ybar == v_mean(y_true)
        ss_res == v_sum(v_sq(v_sub(y_true, y_pred)))
        ss_tot == v_sum(v_sq([i \in 1..Len(y_true) |-> f_sub(y_true[i], ybar)]))
    IN f_sub(One, f_div(ss_res, ss_tot))

mae(y_pred, y_true) == v_mean(v_abs(v_sub(y_pred, y_true)))

\* median of |y_pred - y_true|
mad(y_pred, y_true) ==
    LET a == v_abs(v_sub(y_pred, y_true))
        s == sort_finite(a)
        n == Len(a)
    IN IF n = 0 \/ v_hasnan(a) THEN NaN
       ELSE IF n % 2 = 1 THEN s[(n + 1) \div 2]
       ELSE f_div(f_add(s[n \div 2], s[n \div 2 + 1]), Q(2, 1))

recall(tp_, fp_, tn_, fn_) == Q(tp_, tp_ + fn_)
precision(tp_, fp_, tn_, fn_) == Q(tp_, tp_ + fp_)
accuracy(tp_, fp_, tn_, fn_) == Q(tp_ + tn_, tp_ + fp_ + tn_ + fn_)
f1(tp_, fp_, tn_, fn_) ==
    LET p == precision(tp_, fp_, tn_, fn_)
        r == recall(tp_, fp_, tn_, fn_)
    IN f_div(f_mul(Q(2, 1), f_mul(p, r)), f_add(p, r))

\* probability that a positive-label score exceeds a negative-label score,
\* a tie counting one half
auc(y_pred, y_true) ==
    LET pos == {i \in 1..Len(y_true) : f_eq(y_true[i], One)}
        neg == {i \in 1..Len(y_true) : f_eq(y_true[i], Zero)}
        wins == Cardinality({p \in pos \X neg : f_gt(y_pred[p[1]], y_pred[p[2]])})
        ties == Cardinality({p \in pos \X neg : f_eq(y_pred[p[1]], y_pred[p[2]])})
    IN IF v_hasnan(y_pred) THEN NaN
       ELSE Q(2 * wins + ties, 2 * Cardinality(pos) * Cardinality(neg))

--------------------------------------------------------------------------
(* ModelPerformance.__init__ and the parts of ModelPerformance.fit *)

\* cutoff=0.5, the constructor's default, in tenths
DefaultCutoffTenths == 5

\* __init__: the attributes of a new object
ModelPerformance(model_type, cutoff) ==
    [model_type |-> model_type, cutoff |-> cutoff, result |-> None, residuals |-> None]

\* y_pred: the explainer's y_hat when it has one, else predict(data)
y_pred_of(explainer) ==
    IF explainer.y_hat # None THEN the(explainer.y_hat) ELSE explainer.predict

\* _residuals: the explainer's residuals when it has them, else residual(data, y)
residuals_of(explainer) ==
    IF explainer.residuals # None THEN the(explainer.residuals) ELSE explainer.residual

\* elementwise comparisons of an array with a scalar, and the elementwise
\* product of two boolean arrays
v_eq(a, c) == [i \in 1..Len(a) |-> f_eq(a[i], c)]
v_ge(a, c) == [i \in 1..Len(a) |-> f_ge(a[i], c)]
v_lt(a, c) == [i \in 1..Len(a) |-> f_lt(a[i], c)]
v_and(a, b) == [i \in 1..Len(a) |-> a[i] /\ b[i]]

\* a plausible slip: an exclusive boundary, y_pred > cutoff
tp_gt(y_pred, y_true, cutoff) == b_sum(v_and(v_eq(y_true, One), [i \in 1..Len(y_pred) |-> f_gt(y_pred[i], cutoff)]))
tp(y_pred, y_true, cutoff) == b_sum(v_and(v_eq(y_true, One), v_ge(y_pred, cutoff)))
fp(y_pred, y_true, cutoff) == b_sum(v_and(v_eq(y_true, Zero), v_ge(y_pred, cutoff)))
tn(y_pred, y_true, cutoff) == b_sum(v_and(v_eq(y_true, Zero), v_lt(y_pred, cutoff)))
fn(y_pred, y_true, cutoff) == b_sum(v_and(v_eq(y_true, One), v_lt(y_pred, cutoff)))

\* exceptions: the type, the message, and the element of the argument the
\* exception names (None when the message names none)
NoError == [type |-> "none", message |-> "", element |-> None]
Error(type, message) == [type |-> type, message |-> message, element |-> None]

ModelTypeError == Error("ValueError", "'model_type' must be 'regression' or 'classification'")
ShapeError == Error("ValueError", "operands could not be broadcast together")
LengthError == Error("ValueError", "All arrays must be of the same length")

NoLocals == [set |-> FALSE, tp |-> 0, fp |-> 0, tn |-> 0, fn |-> 0]

regression_result(y_pred, y_true) ==
    [mse |-> mse(y_pred, y_true), rmse |-> rmse(y_pred, y_true),
     r2 |-> r2(y_pred, y_true), mae |-> mae(y_pred, y_true),
     mad |-> mad(y_pred, y_true)]

classification_result(tp_, fp_, tn_, fn_, y_pred, y_true) ==
    [recall |-> recall(tp_, fp_, tn_, fn_), precision |-> precision(tp_, fp_, tn_, fn_),
     f1 |-> f1(tp_, fp_, tn_, fn_), accuracy |-> accuracy(tp_, fp_, tn_, fn_),
     auc |-> auc(y_pred, y_true)]

\* a plausible slip: an unrecognized model_type falls back to regression
fit_metrics_fallback(self, y_pred, y_true) ==
    IF ShapeMismatch(y_pred, y_true)
    THEN [raised |-> ShapeError, result |-> None, locals |-> NoLocals]
    ELSE [raised |-> NoError, result |-> Some(regression_result(y_pred, y_true)),
          locals |-> NoLocals]

\* the if / elif / else on model_type: what is raised, the new result, and
\* the confusion counts
fit_metrics(self, y_pred, y_true) ==
    IF self.model_type = "regression" THEN
        IF ShapeMismatch(y_pred, y_true)
        THEN [raised |-> ShapeError, result |-> None, locals |-> NoLocals]
        ELSE [raised |-> NoError, result |-> Some(regression_result(y_pred, y_true)),
              locals |-> NoLocals]
    ELSE IF self.model_type = "classification" THEN
        IF ShapeMismatch(y_pred, y_true)
        THEN [raised |-> ShapeError, result |-> None, locals |-> NoLocals]
        ELSE LET tp_ == tp(y_pred, y_true, self.cutoff)
                 fp_ == fp(y_pred, y_true, self.cutoff)
                 tn_ == tn(y_pred, y_true, self.cutoff)
                 fn_ == fn(y_pred, y_true, self.cutoff)
             IN [raised |-> NoError,
                 result |-> Some(classification_result(tp_, fp_, tn_, fn_, y_pred, y_true)),
                 locals |-> [set |-> TRUE, tp |-> tp_, fp |-> fp_, tn |-> tn_, fn |-> fn_]]
    ELSE [raised |-> ModelTypeError, result |-> None, locals |-> NoLocals]

\* pd.DataFrame({'y_hat': .., 'y': .., 'residuals': .., 'label': ..}): one row
\* per observation, the scalar label repeated; arrays of different lengths
\* raise ValueError
DataFrame(y_hat, y, residuals, label) ==
    IF Len(y_hat) # Len(y) \/ Len(residuals) # Len(y)
    THEN [raised |-> LengthError, table |-> None]
    ELSE [raised |-> NoError,
          table |-> Some([i \in 1..Len(y) |->
                          [y_hat |-> y_hat[i], y |-> y[i],
                           residuals |-> residuals[i], label |-> label]])]

--------------------------------------------------------------------------
(* The state: objects, calls and their outcomes *)

\* the ModelPerformance objects of the model
Obj == {"a", "b"}

\* something that is not a ModelPerformance
Junk == "junk"

ModelTypes == {"regression", "classification", "foo"}

\* the cutoffs objects are constructed with: the default, another one, NaN
Cutoffs == {Tenths(DefaultCutoffTenths), Tenths(6), NaN}

NoCall == [op |-> "idle", self |-> "", explainer |-> None,
           objects |-> [kind |-> "none", items |-> <<>>], show |-> FALSE]

NoFig == [created |-> FALSE, traces |-> <<>>, returned |-> FALSE, shown |-> FALSE]

\* a plausible slip: a result already computed is kept (fit only fills in
\* what is missing)
fit_keep(self, explainer) ==
    LET y_pred == y_pred_of(explainer)
        _residuals == residuals_of(explainer)
        y_true == explainer.y
        m == fit_metrics(objs[self], y_pred, y_true)
        df == DataFrame(y_pred, y_true, _residuals, explainer.label)
        ok == m.raised = NoError /\ df.raised = NoError
        kept == IF objs[self].result # None THEN objs[self].result ELSE m.result
    IN /\ call' = [NoCall EXCEPT !.op = "fit", !.self = self,
                                 !.explainer = Some(explainer)]
       /\ locals' = m.locals
       /\ fig' = NoFig
       /\ raised' = IF m.raised # NoError THEN m.raised ELSE df.raised
       /\ objs' = IF m.raised # NoError THEN objs
                  ELSE IF df.raised # NoError
                       THEN [objs EXCEPT ![self].result = kept]
                       ELSE [objs EXCEPT ![self].result = kept,
                                         ![self].residuals = df.table]
       /\ everok' = IF ok THEN everok \cup {self} ELSE everok
       /\ lastok' = [lastok EXCEPT ![self] = IF ok THEN Some(explainer) ELSE None]

\* fit: y_pred, _residuals and y_true are read, the metrics are computed and
\* assigned to self.result, then the residuals table is built and assigned
\* to self.residuals; the first exception ends the call.
fit(self, explainer) ==
    LET y_pred == y_pred_of(explainer)
        _residuals == residuals_of(explainer)
        y_true == explainer.y
        m == fit_metrics(objs[self], y_pred, y_true)
        df == DataFrame(y_pred, y_true, _residuals, explainer.label)
        ok == m.raised = NoError /\ df.raised = NoError
    IN /\ call' = [NoCall EXCEPT !.op = "fit", !.self = self,
                                 !.explainer = Some(explainer)]
       /\ locals' = m.locals
       /\ fig' = NoFig
       /\ raised' = IF m.raised # NoError THEN m.raised ELSE df.raised
       /\ objs' = IF m.raised # NoError THEN objs
                  ELSE IF df.raised # NoError
                       THEN [objs EXCEPT ![self].result = m.result]
                       ELSE [objs EXCEPT ![self].result = m.result,
                                         ![self].residuals = df.table]
       /\ everok' = IF ok THEN everok \cup {self} ELSE everok
       /\ lastok' = [lastok EXCEPT ![self] = IF ok THEN Some(explainer) ELSE None]

--------------------------------------------------------------------------
(* ModelPerformance.plot *)

NoneTypeError == Error("AttributeError", "'NoneType' object has no attribute 'copy'")
NotModelPerformanceError ==
    Error("TypeError", "Some explanations aren't of ModelPerformance class")
EmptyTableError == Error("IndexError", "single positional indexer is out-of-bounds")

\* isinstance(ob, self.__class__)
isinstance(os, ob) == ob \in DOMAIN os

\* a plausible slip: an element that is not a ModelPerformance is skipped
RECURSIVE peers_list_skip_other(_, _, _)
peers_list_skip_other(os, items, acc) ==
    IF items = <<>> THEN [raised |-> NoError, list |-> acc]
    ELSE LET ob == Head(items)
         IN IF ~isinstance(os, ob)
            THEN peers_list_skip_other(os, Tail(items), acc)
            ELSE IF os[ob].residuals = None
            THEN [raised |-> NoneTypeError, list |-> acc]
            ELSE peers_list_skip_other(os, Tail(items), acc \o <<the(os[ob].residuals)>>)

\* a plausible slip: a peer without residuals is skipped
RECURSIVE peers_list_skip_unfitted(_, _, _)
peers_list_skip_unfitted(os, items, acc) ==
    IF items = <<>> THEN [raised |-> NoError, list |-> acc]
    ELSE LET ob == Head(items)
         IN IF ~isinstance(os, ob)
            THEN [raised |-> NotModelPerformanceError, list |-> acc]
            ELSE IF os[ob].residuals = None
            THEN peers_list_skip_unfitted(os, Tail(items), acc)
            ELSE peers_list_skip_unfitted(os, Tail(items), acc \o <<the(os[ob].residuals)>>)

\* the loop over objects: each element must be a ModelPerformance, and its
\* residuals are copied; acc is _residuals_df_list so far
RECURSIVE peers_list(_, _, _)
peers_list(os, items, acc) ==
    IF items = <<>> THEN [raised |-> NoError, list |-> acc]
    ELSE LET ob == Head(items)
         IN IF ~isinstance(os, ob)
            THEN [raised |-> NotModelPerformanceError, list |-> acc]
            ELSE IF os[ob].residuals = None
            THEN [raised |-> NoneTypeError, list |-> acc]
            ELSE peers_list(os, Tail(items), acc \o <<the(os[ob].residuals)>>)

\* _residuals_df_list: self.residuals.copy() first, then the peers' copies
residuals_df_list(os, self, objects) ==
    IF os[self].residuals = None
    THEN [raised |-> NoneTypeError, list |-> <<>>]
    ELSE peers_list(os, objects.items, <<the(os[self].residuals)>>)

\* np.unique: the distinct values in ascending order, NaN last
np_unique(v) ==
    dedup(sort_finite(v)) \o (IF v_hasnan(v) THEN <<NaN>> ELSE <<>>)

\* ecdf(data)(x) of the plot module, whose text is not part of the sources at
\* hand: F(x) = (number of sample values <= x) / N, as the specification
\* defines ECDFCalculator for a finite numeric sample (with NaN the
\* comparison is False)
ecdf(data, x) ==
    [i \in 1..Len(x) |->
        Q(Cardinality({j \in 1..Len(data) : f_le(data[j], x[i])}), Len(data))]

\* a plausible slip: the ECDF itself is plotted instead of its complement,
\* over the absolute residuals as they come
scatter_plain(_residuals_df) ==
    LET _abs_residuals == v_abs([i \in 1..Len(_residuals_df) |-> _residuals_df[i].residuals])
        F == ecdf(_abs_residuals, _abs_residuals)
    IN [x |-> _abs_residuals, y |-> F, line_shape |-> "hv",
        name |-> _residuals_df[1].label]

\* the trace fig.add_scatter is given for one residuals table (of >= 1 row)
scatter(_residuals_df) ==
    LET _abs_residuals == v_abs([i \in 1..Len(_residuals_df) |-> _residuals_df[i].residuals])
        _unique_abs_residuals == np_unique(_abs_residuals)
        F == ecdf(_abs_residuals, _unique_abs_residuals)
    IN [x |-> _unique_abs_residuals,
        y |-> [i \in 1..Len(F) |-> f_sub(One, F[i])],
        line_shape |-> "hv",
        name |-> _residuals_df[1].label]

\* a plausible slip: each new trace is put before the earlier ones
RECURSIVE add_traces_front(_, _)
add_traces_front(list, traces) ==
    IF list = <<>> THEN [raised |-> NoError, created |-> TRUE, traces |-> traces]
    ELSE IF Len(Head(list)) = 0
    THEN [raised |-> EmptyTableError, created |-> TRUE, traces |-> traces]
    ELSE add_traces_front(Tail(list), <<scatter(Head(list))>> \o traces)

\* the loop for i in range(n): one trace per table, in order; a table without
\* rows has no first row to take the label from (iloc[0, ...] raises; the
\* chart exists by then, and is neither shown nor returned)
RECURSIVE add_traces(_, _)
add_traces(list, traces) ==
    IF list = <<>> THEN [raised |-> NoError, created |-> TRUE, traces |-> traces]
    ELSE IF Len(Head(list)) = 0
    THEN [raised |-> EmptyTableError, created |-> TRUE, traces |-> traces]
    ELSE add_traces(Tail(list), traces \o <<scatter(Head(list))>>)

\* the whole of plot up to the show / return switch
plot_outcome(os, self, objects) ==
    LET l == residuals_df_list(os, self, objects)
    IN IF l.raised # NoError
       THEN [raised |-> l.raised, created |-> FALSE, traces |-> <<>>]
       ELSE add_traces(l.list, <<>>)

\* a plausible slip: plot keeps the absolute residuals in the object's table
plot_inplace(self, objects, show) ==
    LET r == plot_outcome(objs, self, objects)
    IN /\ call' = [NoCall EXCEPT !.op = "plot", !.self = self,
                                 !.objects = objects, !.show = show]
       /\ raised' = r.raised
       /\ locals' = NoLocals
       /\ fig' = [created |-> r.created, traces |-> r.traces,
                  returned |-> (r.raised = NoError /\ ~show),
                  shown |-> (r.raised = NoError /\ show)]
       /\ objs' = IF objs[self].residuals = None THEN objs
                  ELSE [objs EXCEPT ![self].residuals =
                          Some([i \in 1..Len(the(objs[self].residuals)) |->
                                [the(objs[self].residuals)[i] EXCEPT
                                   !.residuals = f_abs(@)]])]
       /\ UNCHANGED <<everok, lastok>>

\* plot: the chart is shown (and None returned) or returned
plot(self, objects, show) ==
    LET r == plot_outcome(objs, self, objects)
    IN /\ call' = [NoCall EXCEPT !.op = "plot", !.self = self,
                                 !.objects = objects, !.show = show]
       /\ raised' = r.raised
       /\ locals' = NoLocals
       /\ fig' = [created |-> r.created, traces |-> r.traces,
                  returned |-> (r.raised = NoError /\ ~show),
                  shown |-> (r.raised = NoError /\ show)]
       /\ UNCHANGED <<objs, everok, lastok>>

--------------------------------------------------------------------------
(* Explainers: the collaborator's y_hat (or None), what predict(data)      *)
(* returns, its residuals (or None), what residual(data, y) returns, y and *)
(* label                                                                   *)

Explainer(y_hat, predict, residuals, residual, y, label) ==
    [y_hat |-> y_hat, predict |-> predict, residuals |-> residuals,
     residual |-> residual, y |-> y, label |-> label]

T(s) == [i \in 1..Len(s) |-> Tenths(s[i])]

\* y_hat and residuals precomputed; two residuals of equal magnitude
ExplA == Explainer(Some(T(<<5, 5, 3>>)), T(<<5, 5, 3>>),
                   Some(T(<<-5, 5, -7>>)), T(<<-5, 5, -7>>), T(<<10, 0, 10>>), "A")
\* nothing precomputed: predict and residual are called
ExplB == Explainer(None, T(<<6, 3>>), None, T(<<6, -7>>), T(<<0, 10>>), "B")
\* precomputed residuals of another length than y_hat and y
ExplStale == Explainer(Some(T(<<6, 3>>)), T(<<6, 3>>),
                       Some(T(<<6>>)), T(<<6, -7>>), T(<<0, 10>>), "S")
\* three predictions for two values of y: the arrays cannot be broadcast
ExplShape == Explainer(None, T(<<6, 3, 5>>), None, T(<<6, -7, 5>>), T(<<0, 10>>), "H")
\* no observation at all
ExplEmpty == Explainer(None, <<>>, None, <<>>, <<>>, "E")

Explainers == {ExplA, ExplB, ExplStale, ExplShape, ExplEmpty}

\* all sequences over S of length at most n
SeqsUpTo(S, n) == UNION {[1..k -> S] : k \in 0..n}

\* what plot may be given as objects: None, one ModelPerformance, or a
\* collection
PlotObjects ==
    {[kind |-> "none", items |-> <<>>]}
    \cup {[kind |-> "single", items |-> <<o>>] : o \in Obj}
    \cup {[kind |-> "collection", items |-> s] : s \in SeqsUpTo(Obj \cup {Junk}, MaxPeers)}

-----------------------------------------------------------------------------------------------------------------------------------------------
(* The specification: two objects, each constructed with some model_type   *)
(* and some (numeric) cutoff, then any sequence of fit and plot calls. The *)
(* program is sequential: a call ends, the caller takes its outcome (Done), *)
(* and only then makes the next call.                                      *)

Init ==
    /\ objs \in [Obj -> {ModelPerformance(mt, c) : mt \in ModelTypes, c \in Cutoffs \ {NaN}}]
    /\ call = NoCall
    /\ raised = NoError
    /\ locals = NoLocals
    /\ fig = NoFig
    /\ everok = {}
    /\ lastok = [o \in Obj |-> None]

Fit ==
    /\ call.op = "idle"
    /\ \E o \in Obj, e \in Explainers : fit(o, e)

Plot ==
    /\ call.op = "idle"
    /\ \E o \in Obj, objects \in PlotObjects, show \in BOOLEAN : plot(o, objects, show)

\* the caller has the outcome of the call; the next call can be made
Done ==
    /\ call.op # "idle"
    /\ call' = NoCall
    /\ raised' = NoError
    /\ locals' = NoLocals
    /\ fig' = NoFig
    /\ UNCHANGED <<objs, everok, lastok>>

Next == Fit \/ Plot \/ Done

Spec == Init /\ [][Next]_vars

--------------------------------------------------------------------------
(* The second specification: one object, constructed with a recognized     *)
(* model_type and any cutoff, is fitted once on any explainer whose        *)
(* vectors have up to MaxN elements, and then plotted alone.               *)

\* the values a prediction takes: below, at and above the default cutoff, and NaN
\* (the cutoffs are those of Cutoffs)
Scores == {Tenths(3), Tenths(5), Tenths(6), NaN}
Labels == {Zero, One}

\* an explainer with nothing precomputed, whose residual function is the
\* difference of prediction and truth
Fresh(predict, y) == Explainer(None, predict, None, v_sub(predict, y), y, "M")

\* Example 2 of the specification
Example2 == Fresh(T(<<6, 4, 3, 2>>), T(<<10, 0, 10, 0>>))

ExplainersUpTo(n) ==
    {Fresh(p, y) : <<p, y>> \in UNION {[1..k -> Scores] \X [1..k -> Labels] : k \in 0..n}}

AllExplainers == ExplainersUpTo(MaxN) \cup {Example2}

InitOne ==
    /\ \E mt \in {"regression", "classification"}, c \in Cutoffs :
          objs = [o \in Obj |-> ModelPerformance(mt, c)]
    /\ call = NoCall
    /\ raised = NoError
    /\ locals = NoLocals
    /\ fig = NoFig
    /\ everok = {}
    /\ lastok = [o \in Obj |-> None]

FitOne ==
    /\ call.op = "idle"
    /\ objs["a"].result = None
    /\ \E e \in AllExplainers : fit("a", e)

PlotOne ==
    /\ call.op = "idle"
    /\ objs["a"].result # None
    /\ \E show \in BOOLEAN : plot("a", [kind |-> "none", items |-> <<>>], show)

NextOne == FitOne \/ PlotOne \/ Done

SpecOne == InitOne /\ [][NextOne]_vars

--------------------------------------------------------------------------
(* Properties *)

Recognized == {"regression", "classification"}

\* the residuals table of a fitted object
Table(o) == the(objs[o].residuals)

\* the absolute residuals of a table, as a set
AbsResiduals(table) == {f_abs(table[r].residuals) : r \in 1..Len(table)}

\* the objects a plot call reads, the primary first
Series == <<call.self>> \o call.objects.items

StrictlyIncreasing(x) == \A j \in 1..(Len(x) - 1) : f_lt(x[j], x[j + 1])
NonIncreasing(y) == \A j \in 1..(Len(y) - 1) : f_ge(y[j], y[j + 1])
InUnitInterval(y) == \A j \in 1..Len(y) : f_ge(y[j], Zero) /\ f_le(y[j], One)

\* C1: a fit call on an object whose model_type is neither 'regression' nor
\* 'classification' raises the model_type ValueError, and result and
\* residuals of that object are None after it (no fallback to a default task
\* type); such an object never gets a result or a residuals table.
C1_UnrecognizedTypeRaises ==
    /\ \A o \in Obj : objs[o].model_type \notin Recognized
            => objs[o].result = None /\ objs[o].residuals = None
    /\ (call.op = "fit" /\ objs[call.self].model_type \notin Recognized)
            => raised = ModelTypeError

C1_Witness ==
    /\ call.op = "fit"
    /\ objs[call.self].model_type = "foo"
    /\ call.explainer = Some(ExplA)
    /\ raised.type = "ValueError"

\* C2 (as claimed): for every classification fit, tp + fp + tn + fn is the
\* number of observations, and each count is a non-negative integer.
C2_CountsSumToN ==
    locals.set =>
        /\ locals.tp + locals.fp + locals.tn + locals.fn = Len(the(call.explainer).y)
        /\ \A c \in {locals.tp, locals.fp, locals.tn, locals.fn} : c \in Nat

\* C3: in a classification fit an observation is predicted positive iff its
\* score is equal to or greater than cutoff: tp (label 1) and fp (label 0)
\* count the scores at or above cutoff, fn (label 1) and tn (label 0) the
\* scores strictly below it; Example 2 gives tp=1, fp=0, tn=2, fn=1.
C3_InclusiveCutoff ==
    locals.set =>
        LET e == the(call.explainer)
            p == y_pred_of(e)
            y == e.y
            c == objs[call.self].cutoff
            AtOrAbove(i) == f_eq(p[i], c) \/ f_gt(p[i], c)
            Below(i) == f_lt(p[i], c)
            I == 1..Len(y)
        IN /\ locals.tp = Cardinality({i \in I : y[i] = One /\ AtOrAbove(i)})
           /\ locals.fp = Cardinality({i \in I : y[i] = Zero /\ AtOrAbove(i)})
           /\ locals.tn = Cardinality({i \in I : y[i] = Zero /\ Below(i)})
           /\ locals.fn = Cardinality({i \in I : y[i] = One /\ Below(i)})
           /\ (e = Example2 /\ c = Tenths(5))
                 => <<locals.tp, locals.fp, locals.tn, locals.fn>> = <<1, 0, 2, 1>>

\* a fit in which a label-1 score and a label-0 score both equal the cutoff
C3_Witness ==
    /\ locals.set
    /\ LET e == the(call.explainer)
           p == y_pred_of(e)
       IN /\ \E i \in 1..Len(p) : p[i] = objs[call.self].cutoff /\ e.y[i] = One
          /\ \E i \in 1..Len(p) : p[i] = objs[call.self].cutoff /\ e.y[i] = Zero
    /\ locals.tp >= 1
    /\ locals.fp >= 1

\* C4 (as claimed): result is None unless some earlier fit call on the object
\* returned without raising.
C4_ResultOnlyAfterSuccess ==
    \A o \in Obj : objs[o].result # None => o \in everok

\* C5: a fit call that returns leaves tables that depend only on the
\* explainer, model_type and cutoff: fitted again on the explainer of its
\* last returned fit, the object's tables are what they were; and they are
\* the tables of any other object of the same model_type and cutoff last
\* fitted on that explainer, whatever either object held before.
C5_FitHistoryIndependent ==
    [][(call'.op = "fit" /\ raised' = NoError) =>
          LET o == call'.self
          IN /\ lastok[o] = call'.explainer => objs'[o] = objs[o]
             /\ \A o2 \in Obj \ {o} :
                   (/\ lastok[o2] = call'.explainer
                    /\ objs[o2].model_type = objs[o].model_type
                    /\ objs[o2].cutoff = objs[o].cutoff)
                   => /\ objs'[o].result = objs[o2].result
                      /\ objs'[o].residuals = objs[o2].residuals]_vars

\* a fit has returned on one object, and the other object, of the same
\* model_type and cutoff, was last fitted on the same explainer
C5_Witness ==
    /\ call.op = "fit"
    /\ raised = NoError
    /\ call.explainer = Some(ExplB)
    /\ \E o2 \in Obj \ {call.self} :
          /\ lastok[o2] = call.explainer
          /\ objs[o2].model_type = objs[call.self].model_type
          /\ objs[o2].cutoff = objs[call.self].cutoff
          /\ objs[o2] = objs[call.self]

\* the first element of the collection that is not a ModelPerformance
FirstOther ==
    CHOOSE i \in 1..Len(call.objects.items) :
        /\ call.objects.items[i] = Junk
        /\ \A j \in 1..(i - 1) : call.objects.items[j] # Junk

HasOther ==
    /\ call.op = "plot"
    /\ call.objects.kind = "collection"
    /\ \E i \in 1..Len(call.objects.items) : call.objects.items[i] = Junk

NoChart == ~fig.created /\ fig.traces = <<>> /\ ~fig.returned /\ ~fig.shown

\* C6 (as claimed): a plot call given a collection with an element that is
\* not a ModelPerformance raises a TypeError that identifies that element,
\* wherever the element is, and no chart is created or returned.
C6_TypeErrorIdentifiesElement ==
    HasOther =>
        /\ raised.type = "TypeError"
        /\ raised.element # None
        /\ NoChart

\* C6 (amended): such a call always raises and no chart is created or
\* returned, wherever the element is; the exception names no element; it is
\* the TypeError "Some explanations aren't of ModelPerformance class" exactly
\* when the primary object and every peer before the first such element have
\* residuals, and the AttributeError of the missing residuals otherwise.
C6_RaisesWithoutChart ==
    HasOther =>
        LET fitted_before ==
                /\ objs[call.self].residuals # None
                /\ \A j \in 1..(FirstOther - 1) :
                       objs[call.objects.items[j]].residuals # None
        IN /\ raised # NoError
           /\ raised.element = None
           /\ NoChart
           /\ fitted_before => raised = NotModelPerformanceError
           /\ ~fitted_before => raised = NoneTypeError

\* the element that is not a ModelPerformance comes second, after a fitted peer
C6_Witness ==
    /\ HasOther
    /\ Len(call.objects.items) = 2
    /\ FirstOther = 2
    /\ objs[call.objects.items[1]].residuals # None
    /\ raised.type = "TypeError"

\* C7: a plot call that returns has made k + 1 traces for k peers, trace 1
\* from the primary object's residuals and trace i + 1 from the i-th peer's,
\* each named by the label of the table whose absolute residuals are its x
\* values; with the primary and a single peer swapped, the same two traces
\* come in the other order.
C7_TracesInOrder ==
    /\ (call.op = "plot" /\ raised = NoError) =>
          LET k == CASE call.objects.kind = "none" -> 0
                     [] call.objects.kind = "single" -> 1
                     [] call.objects.kind = "collection" -> Len(call.objects.items)
          IN /\ fig.created
             /\ Len(fig.traces) = k + 1
             /\ Len(Series) = k + 1
             /\ \A i \in 1..(k + 1) :
                   /\ fig.traces[i].name = Table(Series[i])[1].label
                   /\ {fig.traces[i].x[j] : j \in 1..Len(fig.traces[i].x)}
                          = AbsResiduals(Table(Series[i]))
    /\ call.op = "idle" => \A o1, o2 \in Obj :
          LET r12 == plot_outcome(objs, o1, [kind |-> "single", items |-> <<o2>>])
              r21 == plot_outcome(objs, o2, [kind |-> "single", items |-> <<o1>>])
          IN r12.raised = NoError =>
                /\ r21.raised = NoError
                /\ r12.traces = <<r21.traces[2], r21.traces[1]>>

\* a chart of three traces, the two peers' labels different
C7_Witness ==
    /\ call.op = "plot"
    /\ raised = NoError
    /\ call.objects.kind = "collection"
    /\ Len(fig.traces) = 3
    /\ fig.traces[2].name # fig.traces[3].name
    /\ fig.traces[1].name = fig.traces[3].name

\* the trace of a series: its x values increase strictly and are the
\* distinct absolute residuals of the table, its y values are
\* G(x) = 1 - (number of absolute residuals <= x)/N, do not increase, lie in
\* [0, 1], and are 0 at the largest absolute residual
ReverseEcdf(trace, table) ==
    LET N == Len(table)
        G(v) == Q(N - Cardinality({r \in 1..N : f_le(f_abs(table[r].residuals), v)}), N)
    IN /\ StrictlyIncreasing(trace.x)
       /\ {trace.x[j] : j \in 1..Len(trace.x)} = AbsResiduals(table)
       /\ Len(trace.y) = Len(trace.x)
       /\ \A j \in 1..Len(trace.x) : trace.y[j] = G(trace.x[j])
       /\ NonIncreasing(trace.y)
       /\ InUnitInterval(trace.y)
       /\ f_eq(trace.y[Len(trace.y)], Zero)

HasNaN(table) == \E r \in 1..Len(table) : table[r].residuals.nan

\* C8 (as claimed): every series plotted has these x and y values.
C8_EverySeriesReverseEcdf ==
    (call.op = "plot" /\ raised = NoError) =>
        \A i \in 1..Len(fig.traces) : ReverseEcdf(fig.traces[i], Table(Series[i]))

\* C8 (amended): every series plotted whose residuals hold no NaN has these
\* x and y values.
C8_FiniteSeriesReverseEcdf ==
    (call.op = "plot" /\ raised = NoError) =>
        \A i \in 1..Len(fig.traces) :
            ~HasNaN(Table(Series[i])) => ReverseEcdf(fig.traces[i], Table(Series[i]))

\* a series of three residuals without NaN, two of them of equal magnitude
C8_Witness ==
    /\ call.op = "plot"
    /\ raised = NoError
    /\ ~HasNaN(Table(call.self))
    /\ Len(Table(call.self)) = 3
    /\ Len(fig.traces[1].x) = 2
    /\ \E r \in 1..3 : f_lt(Table(call.self)[r].residuals, Zero)

\* C9: a plot call, whether it returns the chart, shows it or raises, leaves
\* every object as it was (result, residuals, model_type, cutoff), and what
\* it raises and the traces it makes are those of the tables and the objects
\* argument alone, whatever show is.
C9_PlotReadOnly ==
    [][call'.op = "plot" =>
          LET r == plot_outcome(objs, call'.self, call'.objects)
          IN /\ objs' = objs
             /\ raised' = r.raised
             /\ fig'.traces = r.traces
             /\ fig'.shown = (r.raised = NoError /\ call'.show)
             /\ fig'.returned = (r.raised = NoError /\ ~call'.show)]_vars

\* a chart of the primary and a peer has been shown, not returned
C9_Witness ==
    /\ call.op = "plot"
    /\ call.show
    /\ fig.shown
    /\ ~fig.returned
    /\ Len(fig.traces) = 2
    /\ objs[call.self].residuals # None

\* the ModelPerformance objects a plot call is given: self and the peers
Involved ==
    {call.self} \cup ({call.objects.items[i] : i \in 1..Len(call.objects.items)} \cap Obj)

\* C10: a plot call returns (or shows) a chart only if the primary object and
\* every peer have residuals, set by a fit call that returned; if one of them
\* has residuals None, wherever it stands, the call raises and no chart has
\* been created.
C10_PlotNeedsFittedObjects ==
    call.op = "plot" =>
        /\ (fig.returned \/ fig.shown) =>
              \A o \in Involved : objs[o].residuals # None /\ o \in everok
        /\ (\E o \in Involved : objs[o].residuals = None) =>
              raised # NoError /\ NoChart
        /\ \A o \in Obj : objs[o].residuals # None => o \in everok

\* the second of two peers has never been fitted; the primary and the first have
C10_Witness ==
    /\ call.op = "plot"
    /\ call.objects.kind = "collection"
    /\ Len(call.objects.items) = 2
    /\ call.objects.items[1] = call.self
    /\ objs[call.self].residuals # None
    /\ call.objects.items[2] \in Obj
    /\ objs[call.objects.items[2]].residuals = None
    /\ raised.type = "AttributeError"

====
